---- MODULE Spec2Model ----
(***************************************************************************)
(* Model of src/user/clocks.c: the Clocks object keeps the list of alarm   *)
(* identifiers it has announced to the alarm bus (priv->alarms) in step    *)
(* with the "alarms" value of the clocks settings store.                   *)
(*                                                                         *)
(* C pointers are modelled as options: NULL is the empty tuple and a       *)
(* pointer to v is the one-element tuple <<v>>.  An ISO-8601 string is     *)
(* modelled by the tuple of its numeric fields <<Y, M, D, h, m, s>> (UTC). *)
(***************************************************************************)
EXTENDS Integers, Sequences, FiniteSets, TLC

\* ------------------------------------------------------------ input space

\* Longest "alarms" array the settings store delivers in the model.
MaxLen == 2

NULL == <<>>
Ptr(v) == <<v>>
Deref(p) == p[1]

\* Alarm identifiers found in the settings store.
ClockIds == {"a", "b"}

\* The identifier the simulated alarms are announced under (config.h).
APP_ID == "APP_ID"

BusIds == ClockIds \cup {APP_ID}

\* "2030-01-01T10:00:00Z", "2030-06-01T00:00:00Z" and a string with month 13.
RingT1 == <<2030, 1, 1, 10, 0, 0>>
RingT2 == <<2030, 6, 1, 0, 0, 0>>
RingBad == <<2030, 13, 1, 0, 0, 0>>

RingTimes == {RingT1, RingT2, RingBad}

\* What g_date_time_new_now_utc can return when the simulation starts.
NowValues == {1893455000, 1893458600}

\* One a{sv} dictionary of the "alarms" array: a sequence of <<key, value>>.
AlarmRecord(id, ring) ==
    (IF id = NULL THEN <<>> ELSE << <<"id", Deref(id)>> >>)
    \o (IF ring = NULL THEN <<>> ELSE << <<"ring_time", Deref(ring)>> >>)

\* A dictionary with no "id" key: an unrecognised key and a ring time.
NoIdRecord == << <<"name", "Wake">>, <<"ring_time", RingT1>> >>

AlarmRecords ==
    {NoIdRecord}
    \cup {AlarmRecord(Ptr(i), NULL) : i \in ClockIds}
    \cup {AlarmRecord(Ptr("a"), Ptr(t)) : t \in RingTimes}
    \cup {AlarmRecord(Ptr("b"), Ptr(RingT1))}

SeqsUpTo(S, n) == UNION {[1..k -> S] : k \in 0..n}

\* clocks_settings_get_alarms: NULL or an array of dictionaries.
Snapshots == {NULL} \cup {Ptr(s) : s \in SeqsUpTo(AlarmRecords, MaxLen)}

\* --------------------------------------------------------------- GDateTime

IsLeap(y) == (y % 4 = 0 /\ y % 100 # 0) \/ y % 400 = 0

DaysInMonth(y, m) ==
    IF m = 2 THEN (IF IsLeap(y) THEN 29 ELSE 28)
    ELSE IF m \in {4, 6, 9, 11} THEN 30 ELSE 31

\* Days from 1970-01-01 to the civil date y-m-d.
DaysFromCivil(y, m, d) ==
    LET yy == IF m <= 2 THEN y - 1 ELSE y
        era == yy \div 400
        yoe == yy - era * 400
        mp == (m + 9) % 12
        doy == (153 * mp + 2) \div 5 + d - 1
        doe == yoe * 365 + yoe \div 4 - yoe \div 100 + doy
    IN  era * 146097 + doe - 719468

\* g_date_time_new_from_iso8601 (text, NULL): NULL when the text is no date.
g_date_time_new_from_iso8601(text) ==
    IF /\ text[2] \in 1..12
       /\ text[3] \in 1..DaysInMonth(text[1], text[2])
       /\ text[4] \in 0..23
       /\ text[5] \in 0..59
       /\ text[6] \in 0..59
    THEN Ptr(text)
    ELSE NULL

\* g_date_time_to_unix of a valid GDateTime.
g_date_time_to_unix(datetime) ==
    LET f == Deref(datetime)
    IN  DaysFromCivil(f[1], f[2], f[3]) * 86400 + f[4] * 3600 + f[5] * 60 + f[6]

\* g_rand_int_range (rand, begin, end): a value in [begin, end).
g_rand_int_range(begin, end) == begin..(end - 1)

\* ------------------------------------------------------------------- state

VARIABLES
    default_clocks, \* the static default_clocks: NULL or Ptr("clocks")
    simulate,       \* priv->simulate
    handlers,       \* handlers connected to "alarms-changed" by this object
    alarms,         \* priv->alarms: the GList of known clock ids
    snapshot,       \* the GVariant on_alarms_changed last read from the store
    pc,             \* "idle", "loop" (inside on_alarms_changed) or "crashed"
    iter,           \* alarms_iter: index of the next dictionary of the array
    bus,            \* calls made on the bus since on_alarms_changed was entered
    last_call,      \* per id: the latest call made on the bus for it, or NULL
    rerun,          \* the running pass re-reads the array of the pass before it
    call_failed,    \* one of the calls recorded in bus failed on the bus
    lead            \* passes entered minus "alarms-changed" signals delivered

vars == <<default_clocks, simulate, handlers, alarms, snapshot, pc, iter, bus,
          last_call, rerun, call_failed, lead>>

\* The part of the state the static functions of clocks.c act on.
Prog == [alarms |-> alarms, bus |-> bus, last_call |-> last_call, crashed |-> FALSE]

\* ------------------------------------------------------------- the alarm bus

\* The calls clocks.c makes on the bus, recorded as they are made.
bim_bus_add_alarm(st, clock_id, timestamp) ==
    [st EXCEPT !.bus = Append(@, <<"add_alarm", clock_id, timestamp>>),
               !.last_call[clock_id] = Ptr(<<"add_alarm", clock_id, timestamp>>)]

bim_bus_remove_alarm(st, clock_id) ==
    [st EXCEPT !.bus = Append(@, <<"remove_alarm", clock_id>>),
               !.last_call[clock_id] = Ptr(<<"remove_alarm", clock_id>>)]

\* Whether a call made between st and out failed on the bus: any call may.
BusCallFails(st, out) == IF out.bus # st.bus THEN BOOLEAN ELSE {FALSE}

\* ------------------------------------------------------------------ clocks.c

\* GFOREACH ... g_strcmp0 (id, clock_id) == 0: index of the first match, or 0.
RECURSIVE FirstIndex(_, _, _)
FirstIndex(list, clock_id, k) ==
    IF k > Len(list) THEN 0
    ELSE IF list[k] = clock_id THEN k
    ELSE FirstIndex(list, clock_id, k + 1)

\* g_list_remove of the node at index k.
RemoveAt(list, k) == SubSeq(list, 1, k - 1) \o SubSeq(list, k + 1, Len(list))

\* g_list_prepend in place of g_list_append.
add_alarm_prepends(st, clock_id, timestamp) ==
    bim_bus_add_alarm([st EXCEPT !.alarms = <<clock_id>> \o @], clock_id, timestamp)

\* The bus call is made a second time.
add_alarm_retries(st, clock_id, timestamp) ==
    bim_bus_add_alarm(
        bim_bus_add_alarm([st EXCEPT !.alarms = Append(@, clock_id)], clock_id, timestamp),
        clock_id, timestamp)

add_alarm(st, clock_id, timestamp) ==
    bim_bus_add_alarm([st EXCEPT !.alarms = Append(@, clock_id)], clock_id, timestamp)

\* The bus is told, the list entry stays.
remove_alarm_keeps_entry(st, clock_id) ==
    bim_bus_remove_alarm(st, clock_id)

\* The list entry goes, the bus is not told.
remove_alarm_silent(st, clock_id) ==
    LET k == FirstIndex(st.alarms, clock_id, 1)
    IN  IF k = 0 THEN st ELSE [st EXCEPT !.alarms = RemoveAt(@, k)]

\* The head of the list goes, whatever its id.
remove_alarm_head(st, clock_id) ==
    bim_bus_remove_alarm([st EXCEPT !.alarms = Tail(@)], clock_id)

\* The whole list is freed.
remove_alarm_clears_list(st, clock_id) ==
    bim_bus_remove_alarm([st EXCEPT !.alarms = <<>>], clock_id)

remove_alarm(st, clock_id) ==
    LET k == FirstIndex(st.alarms, clock_id, 1)
        removed == IF k = 0 THEN st ELSE [st EXCEPT !.alarms = RemoveAt(@, k)]
    IN  bim_bus_remove_alarm(removed, clock_id)

\* The while loop over the dictionary: the last value of each recognised key.
RECURSIVE LookupKey(_, _, _, _)
LookupKey(alarm, key, k, found) ==
    IF k > Len(alarm) THEN found
    ELSE LookupKey(alarm, key, k + 1,
                   IF alarm[k][1] = key THEN Ptr(alarm[k][2]) ELSE found)

\* The values update_alarm reads from a dictionary and from the list.
RecId(alarm) == LookupKey(alarm, "id", 1, NULL)
RecRing(alarm) == LookupKey(alarm, "ring_time", 1, NULL)
Exists(st, alarm) ==
    RecId(alarm) # NULL /\ FirstIndex(st.alarms, Deref(RecId(alarm)), 1) # 0

\* The branches an update_alarm can take: "add", "remove", "touch" (a bus
\* call for the id with no change of the list), "crash" or "none".
UpdateAlarmBranch(branch, st, alarm) ==
    LET datetime == IF RecRing(alarm) = NULL THEN NULL
                    ELSE g_date_time_new_from_iso8601(Deref(RecRing(alarm)))
        timestamp == IF datetime = NULL THEN 0 ELSE g_date_time_to_unix(datetime)
    IN  CASE branch = "add" ->
               IF datetime # NULL
               THEN {add_alarm(st, Deref(RecId(alarm)), timestamp)}
               ELSE {add_alarm(st, Deref(RecId(alarm)), 0), [st EXCEPT !.crashed = TRUE]}
          [] branch = "remove" -> {remove_alarm(st, Deref(RecId(alarm)))}
          [] branch = "touch" -> {bim_bus_add_alarm(st, Deref(RecId(alarm)), timestamp)}
          [] branch = "crash" -> {[st EXCEPT !.crashed = TRUE]}
          [] OTHER -> {st}

\* The test of alarm_exists is missing from the add branch.
update_alarm_readds(st, alarm) ==
    UpdateAlarmBranch(IF RecId(alarm) = NULL THEN "none"
                      ELSE IF RecRing(alarm) # NULL THEN "add"
                      ELSE IF Exists(st, alarm) THEN "remove" ELSE "none",
                      st, alarm)

\* A known id with a ring time is announced again with the new time.
update_alarm_reschedules(st, alarm) ==
    UpdateAlarmBranch(IF RecId(alarm) = NULL THEN "none"
                      ELSE IF ~Exists(st, alarm) /\ RecRing(alarm) # NULL THEN "add"
                      ELSE IF Exists(st, alarm) /\ RecRing(alarm) = NULL THEN "remove"
                      ELSE IF Exists(st, alarm) THEN "touch" ELSE "none",
                      st, alarm)

\* The test of alarm_exists is missing from the remove branch.
update_alarm_removes_unknown(st, alarm) ==
    UpdateAlarmBranch(IF RecId(alarm) = NULL THEN "none"
                      ELSE IF ~Exists(st, alarm) /\ RecRing(alarm) # NULL THEN "add"
                      ELSE IF RecRing(alarm) = NULL THEN "remove" ELSE "none",
                      st, alarm)

\* The test of new_clock_id against NULL is missing: g_strcmp0 tolerates
\* NULL, g_strdup returns NULL and the bus call dereferences it.
update_alarm_no_id_check(st, alarm) ==
    UpdateAlarmBranch(IF RecId(alarm) = NULL
                      THEN (IF RecRing(alarm) # NULL THEN "crash" ELSE "none")
                      ELSE IF ~Exists(st, alarm) /\ RecRing(alarm) # NULL THEN "add"
                      ELSE IF Exists(st, alarm) /\ RecRing(alarm) = NULL THEN "remove"
                      ELSE "none",
                      st, alarm)

\* update_alarm: the set of outcomes of one call.  A ring time that does not
\* parse leaves datetime NULL; g_date_time_to_unix (NULL) either fails its
\* precondition and returns 0 or dereferences NULL and ends the process.
update_alarm(st, alarm) ==
    LET ring_time == LookupKey(alarm, "ring_time", 1, NULL)
        new_clock_id == LookupKey(alarm, "id", 1, NULL)
    IN  IF new_clock_id = NULL THEN {st}
        ELSE
          LET alarm_exists == FirstIndex(st.alarms, Deref(new_clock_id), 1) # 0
          IN  IF ~alarm_exists /\ ring_time # NULL THEN
                LET datetime == g_date_time_new_from_iso8601(Deref(ring_time))
                IN  IF datetime # NULL
                    THEN {add_alarm(st, Deref(new_clock_id), g_date_time_to_unix(datetime))}
                    ELSE {add_alarm(st, Deref(new_clock_id), 0),
                          [st EXCEPT !.crashed = TRUE]}
              ELSE IF alarm_exists /\ ring_time = NULL THEN
                {remove_alarm(st, Deref(new_clock_id))}
              ELSE {st}

\* The second offset is drawn from 60..119 instead of 80..119.
add_fake_alarms_wide(st, now) ==
    {bim_bus_add_alarm(bim_bus_add_alarm(st, APP_ID, now + d1), APP_ID, now + d2) :
        d1 \in g_rand_int_range(30, 60), d2 \in g_rand_int_range(60, 120)}

\* add_fake_alarms: the outcomes for the clock reading now.
add_fake_alarms(st, now) ==
    {bim_bus_add_alarm(bim_bus_add_alarm(st, APP_ID, now + d1), APP_ID, now + d2) :
        d1 \in g_rand_int_range(30, 60), d2 \in g_rand_int_range(80, 120)}

\* ------------------------------------------------------------------ actions

TypeOK ==
    /\ default_clocks \in {NULL, Ptr("clocks")}
    /\ simulate \in BOOLEAN
    /\ handlers \in 0..1
    /\ snapshot \in Snapshots
    /\ pc \in {"idle", "loop", "crashed"}
    /\ rerun \in BOOLEAN
    /\ call_failed \in BOOLEAN
    /\ lead \in 0..1

Init ==
    /\ default_clocks = NULL
    /\ simulate = FALSE
    /\ handlers = 0
    /\ alarms = <<>>
    /\ snapshot = NULL
    /\ pc = "idle"
    /\ iter = 1
    /\ bus = <<>>
    /\ last_call = [i \in BusIds |-> NULL]
    /\ rerun = FALSE
    /\ call_failed = FALSE
    /\ lead = 0

\* on_alarms_changed up to its first call of update_alarm: the array is read
\* from the store; NULL returns at once and an empty array ends the loop.
EnterAlarmsChanged(value, again) ==
    /\ snapshot' = value
    /\ bus' = <<>>
    /\ iter' = 1
    /\ rerun' = again
    /\ call_failed' = FALSE
    /\ pc' = IF value = NULL \/ Len(Deref(value)) = 0 THEN "idle" ELSE "loop"

\* One turn of the while loop of on_alarms_changed: update_alarm on the next
\* dictionary; after the last one the iterator is exhausted and the handler
\* returns.
OnAlarmsChangedStep ==
    /\ pc = "loop"
    /\ \E out \in update_alarm(Prog, Deref(snapshot)[iter]) :
         /\ alarms' = out.alarms
         /\ bus' = out.bus
         /\ last_call' = out.last_call
         /\ \E failed \in BusCallFails(Prog, out) :
                call_failed' = (call_failed \/ failed)
         /\ pc' = IF out.crashed THEN "crashed"
                  ELSE IF iter = Len(Deref(snapshot)) THEN "idle" ELSE "loop"
    /\ iter' = iter + 1
    /\ UNCHANGED <<default_clocks, simulate, handlers, snapshot, rerun, lead>>

\* clocks_connect_settings connects the handler and leaves out the first
\* call of on_alarms_changed.
ClocksGetDefault_no_first_pass(sim) ==
    /\ pc = "idle"
    /\ IF default_clocks # NULL
       THEN UNCHANGED vars
       ELSE /\ default_clocks' = Ptr("clocks")
            /\ simulate' = sim
            /\ IF sim
               THEN /\ \E now \in NowValues : \E out \in add_fake_alarms(Prog, now) :
                         /\ bus' = out.bus
                         /\ last_call' = out.last_call
                         /\ alarms' = out.alarms
                         /\ \E failed \in BusCallFails(Prog, out) :
                                call_failed' = (call_failed \/ failed)
                    /\ UNCHANGED <<handlers, snapshot, pc, iter, rerun, lead>>
               ELSE /\ handlers' = handlers + 1
                    /\ UNCHANGED <<alarms, last_call, snapshot, pc, iter, rerun, lead,
                                   bus, call_failed>>

\* clocks_get_default constructs a new object on every call: the test of
\* default_clocks is missing.
ClocksGetDefault_always_new(sim) ==
    /\ pc = "idle"
    /\ default_clocks' = Ptr("clocks")
    /\ simulate' = sim
    /\ IF sim
       THEN /\ \E now \in NowValues : \E out \in add_fake_alarms(Prog, now) :
                 /\ bus' = out.bus
                 /\ last_call' = out.last_call
                 /\ alarms' = out.alarms
                 /\ \E failed \in BusCallFails(Prog, out) :
                        call_failed' = (call_failed \/ failed)
            /\ UNCHANGED <<handlers, snapshot, pc, iter, rerun, lead>>
       ELSE /\ handlers' = 1
            /\ \E value \in Snapshots : EnterAlarmsChanged(value, FALSE)
            /\ lead' = 1
            /\ UNCHANGED <<alarms, last_call>>

\* clocks_get_default (simulate): the first call constructs the object
\* (clocks_init, clocks_set_property, clocks_connect_settings); later calls
\* return the same object.  The store holds some value when it is first read.
ClocksGetDefault(sim) ==
    /\ pc = "idle"
    /\ IF default_clocks # NULL
       THEN UNCHANGED vars
       ELSE /\ default_clocks' = Ptr("clocks")
            /\ simulate' = sim
            /\ IF sim
               THEN /\ \E now \in NowValues : \E out \in add_fake_alarms(Prog, now) :
                         /\ bus' = out.bus
                         /\ last_call' = out.last_call
                         /\ alarms' = out.alarms
                         /\ \E failed \in BusCallFails(Prog, out) :
                                call_failed' = (call_failed \/ failed)
                    /\ UNCHANGED <<handlers, snapshot, pc, iter, rerun, lead>>
               ELSE /\ handlers' = handlers + 1
                    /\ \E value \in Snapshots : EnterAlarmsChanged(value, FALSE)
                    /\ lead' = lead + 1
                    /\ UNCHANGED <<alarms, last_call>>

\* The settings store emits "alarms-changed" (the signal may also fire with
\* the "alarms" value unchanged); every connected handler runs and reads the
\* value the store holds, and with none connected nothing happens.
AlarmsChanged ==
    /\ pc = "idle"
    /\ default_clocks # NULL
    /\ IF handlers > 0
       THEN /\ \E value \in Snapshots : EnterAlarmsChanged(value, value = snapshot)
            /\ lead' = lead + 1 - 1  \* one more pass, one more signal
            /\ UNCHANGED <<default_clocks, simulate, handlers, alarms, last_call>>
       ELSE UNCHANGED vars

Next ==
    \/ \E sim \in BOOLEAN : ClocksGetDefault(sim)
    \/ AlarmsChanged
    \/ OnAlarmsChangedStep

Spec == Init /\ [][Next]_vars

\* ------------------------------------------------------------ vocabulary

KnownIds == {alarms[k] : k \in 1..Len(alarms)}

IsAdd(call) == call # NULL /\ Deref(call)[1] = "add_alarm"

\* Ids whose latest bus call is an add_alarm: added and not removed since.
Outstanding == {i \in BusIds : IsAdd(last_call[i])}

\* The dictionary the next turn of the loop hands to update_alarm.
Cur == Deref(snapshot)[iter]
CurId == LookupKey(Cur, "id", 1, NULL)
CurRing == LookupKey(Cur, "ring_time", 1, NULL)

\* The epoch seconds of the ring times of the input space, from the calendar.
EpochOf == [t \in {RingT1, RingT2} |->
               IF t = RingT1 THEN 1893492000 ELSE 1906502400]

IsIso8601(t) == t \in DOMAIN EpochOf

\* The ids that occur in the records of an array.
IdsOf(value) ==
    IF value = NULL THEN {}
    ELSE {Deref(LookupKey(Deref(value)[k], "id", 1, NULL)) :
             k \in {n \in 1..Len(Deref(value)) :
                       LookupKey(Deref(value)[n], "id", 1, NULL) # NULL}}

\* No id occurs in two records of the array.
UniqueIds(value) ==
    value = NULL \/
    \A m, n \in 1..Len(Deref(value)) :
        (m # n /\ LookupKey(Deref(value)[m], "id", 1, NULL) # NULL)
            => LookupKey(Deref(value)[m], "id", 1, NULL)
                 # LookupKey(Deref(value)[n], "id", 1, NULL)

\* The loop goes on to the next dictionary, or returns after the last one.
LoopAdvances ==
    /\ iter' = iter + 1
    /\ pc' = IF iter = Len(Deref(snapshot)) THEN "idle" ELSE "loop"

\* ---------------------------------------------------------------- claims

\* C1 as stated: in every state the registry priv->alarms holds exactly the
\* ids for which add_alarm was sent on the bus and no remove_alarm since.
C1_AsStated == KnownIds = Outstanding

\* C1: in every state the registry priv->alarms holds exactly the ids for
\* which add_alarm was sent on the bus and no remove_alarm since, not counting
\* the synthetic add_alarm calls of simulation mode, which never enter the
\* registry.
C1_RegistryMatchesBus ==
    KnownIds = Outstanding \ (IF simulate THEN {APP_ID} ELSE {})

C1_Witness ==
    /\ pc = "idle"
    /\ alarms = <<"b">>
    /\ last_call["a"] = Ptr(<<"remove_alarm", "a">>)
    /\ IsAdd(last_call["b"])

\* C2 as stated: while a pass re-reads the array of the pass before it, no
\* record changes the registry or puts a call on the bus.
C2_AsStated ==
    [][(pc = "loop" /\ rerun) => (alarms' = alarms /\ bus' = <<>>)]_vars

\* C2: while a pass re-reads the array of the pass before it, and no id
\* occurs in two records of that array, no record changes the registry or
\* puts a call on the bus.
C2_RerunIsSilent ==
    [][(pc = "loop" /\ rerun /\ UniqueIds(snapshot))
          => (alarms' = alarms /\ bus' = <<>> /\ last_call' = last_call
              /\ pc' # "crashed")]_vars

C2_Witness ==
    /\ pc = "idle"
    /\ rerun
    /\ iter = 3
    /\ UniqueIds(snapshot)
    /\ alarms = <<"a", "b">>
    /\ bus = <<>>

\* C3: a record without ring_time for an id whose latest bus call is the
\* add_alarm of a record with a valid ring_time takes the id out of the
\* registry and sends exactly one remove_alarm for it, so the calls for the
\* id are that add_alarm followed by this remove_alarm.
C3_AddThenRemove ==
    [][\A i \in ClockIds :
          (/\ pc = "loop"
           /\ CurId = Ptr(i)
           /\ CurRing = NULL
           /\ \E t \in DOMAIN EpochOf :
                 last_call[i] = Ptr(<<"add_alarm", i, EpochOf[t]>>))
          => (/\ i \notin KnownIds'
              /\ bus' = Append(bus, <<"remove_alarm", i>>)
              /\ last_call' = [last_call EXCEPT ![i] = Ptr(<<"remove_alarm", i>>)]
              /\ pc' # "crashed")]_vars

C3_Witness ==
    /\ bus = << <<"add_alarm", "a", 1893492000>>, <<"remove_alarm", "a">> >>
    /\ "a" \notin KnownIds
    /\ last_call["a"] = Ptr(<<"remove_alarm", "a">>)

\* C4: a record with a valid ring_time for an id that is not in the registry
\* appends the id at the end of the registry and sends exactly one call,
\* add_alarm (id, epoch seconds of that ring_time).
C4_AddTransition ==
    [][\A i \in ClockIds :
          (/\ pc = "loop"
           /\ CurId = Ptr(i)
           /\ i \notin KnownIds
           /\ CurRing # NULL
           /\ IsIso8601(Deref(CurRing)))
          => (/\ alarms' = Append(alarms, i)
              /\ bus' = Append(bus, <<"add_alarm", i, EpochOf[Deref(CurRing)]>>)
              /\ pc' # "crashed")]_vars

C4_Witness ==
    /\ alarms = <<"b", "a">>
    /\ bus = << <<"add_alarm", "a", 1906502400>> >>
    /\ snapshot = Ptr(<< AlarmRecord(Ptr("a"), Ptr(RingT2)) >>)

\* C5: a record without ring_time for an id in the registry removes that id
\* alone from the registry, the other entries keeping their order, and sends
\* exactly one call, remove_alarm (id).
C5_RemoveTransition ==
    [][\A i \in ClockIds :
          (/\ pc = "loop"
           /\ CurId = Ptr(i)
           /\ i \in KnownIds
           /\ CurRing = NULL)
          => (/\ alarms' = SelectSeq(alarms, LAMBDA x : x # i)
              /\ bus' = Append(bus, <<"remove_alarm", i>>)
              /\ pc' # "crashed")]_vars

C5_Witness ==
    /\ alarms = <<"a">>
    /\ bus = << <<"remove_alarm", "b">> >>
    /\ snapshot = Ptr(<< AlarmRecord(Ptr("b"), NULL) >>)
    /\ last_call["b"] = Ptr(<<"remove_alarm", "b">>)

\* C6 as stated: a record with a ring_time that is no ISO-8601 date, for an
\* id that is not in the registry, changes neither the registry nor the bus,
\* and the loop goes on to the next record.
C6_AsStated ==
    [][\A i \in ClockIds :
          (/\ pc = "loop"
           /\ CurId = Ptr(i)
           /\ i \notin KnownIds
           /\ CurRing # NULL
           /\ ~IsIso8601(Deref(CurRing)))
          => (alarms' = alarms /\ bus' = bus /\ LoopAdvances)]_vars

\* The outcomes of the loop of on_alarms_changed from the k-th dictionary on.
RECURSIVE RunFrom(_, _, _)
RunFrom(st, array, k) ==
    IF st.crashed \/ k > Len(array) THEN {st}
    ELSE UNION {RunFrom(out, array, k + 1) : out \in update_alarm(st, array[k])}

\* C7: a record with no id key changes neither the registry nor the bus, the
\* loop goes on to the next record, and the outcomes of the rest of the pass
\* are those of the same array with that record taken out.
C7_NoIdRecordSkipped ==
    [][(pc = "loop" /\ CurId = NULL)
          => (/\ alarms' = alarms
              /\ bus' = bus
              /\ last_call' = last_call
              /\ LoopAdvances
              /\ RunFrom(Prog, Deref(snapshot), iter)
                   = RunFrom(Prog, RemoveAt(Deref(snapshot), iter), iter))]_vars

C7_Witness ==
    /\ pc = "idle"
    /\ snapshot = Ptr(<< NoIdRecord, AlarmRecord(Ptr("b"), Ptr(RingT1)) >>)
    /\ alarms = <<"b">>
    /\ bus = << <<"add_alarm", "b", 1893492000>> >>

\* C8: a record without ring_time for an id that is not in the registry
\* changes neither the registry nor the bus, and the loop goes on to the
\* next record.
C8_UnknownRemovalIgnored ==
    [][\A i \in ClockIds :
          (/\ pc = "loop"
           /\ CurId = Ptr(i)
           /\ i \notin KnownIds
           /\ CurRing = NULL)
          => (/\ alarms' = alarms
              /\ bus' = bus
              /\ last_call' = last_call
              /\ LoopAdvances)]_vars

C8_Witness ==
    /\ pc = "idle"
    /\ snapshot = Ptr(<< AlarmRecord(Ptr("a"), NULL), AlarmRecord(Ptr("b"), Ptr(RingT1)) >>)
    /\ alarms = <<"b">>
    /\ last_call["a"] = NULL
    /\ bus = << <<"add_alarm", "b", 1893492000>> >>

\* C9: a record with a ring_time for an id in the registry changes neither
\* the registry nor the bus, whatever the ring_time; and as long as an id
\* stays in the registry its latest bus call stays the add_alarm that put it
\* there.
C9_KnownWithRingTimeIgnored ==
    [][/\ \A i \in ClockIds :
            (/\ pc = "loop"
             /\ CurId = Ptr(i)
             /\ i \in KnownIds
             /\ CurRing # NULL)
            => (/\ alarms' = alarms
                /\ bus' = bus
                /\ last_call' = last_call
                /\ LoopAdvances)
       /\ \A i \in ClockIds :
            (i \in KnownIds /\ i \in KnownIds')
            => (IsAdd(last_call[i]) /\ last_call'[i] = last_call[i])]_vars

C9_Witness ==
    /\ pc = "idle"
    /\ snapshot = Ptr(<< AlarmRecord(Ptr("a"), Ptr(RingT2)) >>)
    /\ alarms = <<"a">>
    /\ last_call["a"] = Ptr(<<"add_alarm", "a", 1893492000>>)
    /\ bus = <<>>

\* C10: a pass over an array leaves every id that occurs in no record of the
\* array as it is: in or out of the registry, in the same order, with no bus
\* call for it; and an id leaves the registry only when a record bearing it
\* without ring_time is processed.
C10_UnmentionedUntouched ==
    [][/\ \A j \in ClockIds :
            j \notin IdsOf(snapshot')
            => (/\ (j \in KnownIds') = (j \in KnownIds)
                /\ last_call'[j] = last_call[j]
                /\ \A k \in 1..Len(bus') : bus'[k][2] # j)
       /\ SelectSeq(alarms', LAMBDA x : x \notin IdsOf(snapshot'))
            = SelectSeq(alarms, LAMBDA x : x \notin IdsOf(snapshot'))
       /\ \A j \in ClockIds :
            (j \in KnownIds /\ j \notin KnownIds')
            => (pc = "loop" /\ CurId = Ptr(j) /\ CurRing = NULL)]_vars

C10_Witness ==
    /\ pc = "idle"
    /\ snapshot = Ptr(<< AlarmRecord(Ptr("a"), Ptr(RingT2)), AlarmRecord(Ptr("a"), NULL) >>)
    /\ alarms = <<"b">>
    /\ IsAdd(last_call["b"])
    /\ bus = << <<"remove_alarm", "a">> >>

\* The calls a step puts on the bus: what bus' holds beyond bus (bus is
\* emptied when on_alarms_changed is entered).
NewCalls ==
    IF Len(bus') >= Len(bus) /\ SubSeq(bus', 1, Len(bus)) = bus
    THEN SubSeq(bus', Len(bus) + 1, Len(bus'))
    ELSE bus'

\* The calls for id i in calls[k..] alternate, given whether the call for i
\* before them was an add_alarm.
RECURSIVE Alternates(_, _, _, _)
Alternates(after_add, calls, k, i) ==
    IF k > Len(calls) THEN TRUE
    ELSE IF calls[k][2] # i THEN Alternates(after_add, calls, k + 1, i)
    ELSE IF calls[k][1] = "add_alarm"
         THEN ~after_add /\ Alternates(TRUE, calls, k + 1, i)
         ELSE after_add /\ Alternates(FALSE, calls, k + 1, i)

\* C11 as stated: for every id the calls put on the bus alternate add_alarm,
\* remove_alarm, add_alarm, ..., starting with add_alarm.
C11_AsStated ==
    [][\A i \in BusIds : Alternates(IsAdd(last_call[i]), NewCalls, 1, i)]_vars

\* C11: for every id read from the settings store the calls put on the bus
\* alternate add_alarm, remove_alarm, add_alarm, ..., starting with
\* add_alarm; the two synthetic add_alarm calls of simulation mode, which
\* share one id, are not counted.
C11_CallsAlternate ==
    [][\A i \in ClockIds : Alternates(IsAdd(last_call[i]), NewCalls, 1, i)]_vars

C11_Witness ==
    /\ bus = << <<"remove_alarm", "a">>, <<"add_alarm", "a", 1906502400>> >>
    /\ alarms = <<"a">>
    /\ last_call["a"] = Ptr(<<"add_alarm", "a", 1906502400>>)

\* C12: once the object is constructed with simulate = TRUE the bus has seen
\* exactly two calls, both add_alarm for APP_ID, the first at now + d1 with
\* d1 within 30..60 and the second at now + d2 with d2 within 80..120, the
\* second time later than the first, and the registry is empty.
C12_SimulationMode ==
    simulate =>
       /\ alarms = <<>>
       /\ Len(bus) = 2
       /\ bus[1][1] = "add_alarm" /\ bus[1][2] = APP_ID
       /\ bus[2][1] = "add_alarm" /\ bus[2][2] = APP_ID
       /\ \E now \in NowValues :
             /\ bus[1][3] - now \in 30..60
             /\ bus[2][3] - now \in 80..120
       /\ bus[2][3] > bus[1][3]
       /\ last_call = [i \in BusIds |-> IF i = APP_ID THEN Ptr(bus[2]) ELSE NULL]

C12_Witness ==
    /\ simulate
    /\ default_clocks # NULL
    /\ bus = << <<"add_alarm", APP_ID, 1893455059>>, <<"add_alarm", APP_ID, 1893455080>> >>

\* C13 as stated: when a call made for a record fails on the bus it is made
\* once and the handler does not carry on as after a call that succeeded.
C13_AsStated ==
    [][(pc = "loop" /\ ~call_failed /\ call_failed')
          => (Len(NewCalls) = 1 /\ pc' \notin {"loop", "idle"})]_vars

\* C13: when a call made for a record fails on the bus it is made once, the
\* change of the registry stays and the handler carries on with the next
\* record as after a call that succeeded; and every record that changes the
\* registry makes exactly one call, the others none.
C13_FailureIgnoredNotRetried ==
    [][/\ (pc = "loop" /\ ~call_failed /\ call_failed')
            => (Len(NewCalls) = 1 /\ alarms' # alarms /\ LoopAdvances)
       /\ pc = "loop"
            => Len(NewCalls) = (IF alarms' # alarms THEN 1 ELSE 0)]_vars

C13_Witness ==
    /\ pc = "idle"
    /\ call_failed
    /\ alarms = <<"a", "b">>
    /\ bus = << <<"add_alarm", "a", 1893492000>>, <<"add_alarm", "b", 1893492000>> >>

\* The last dictionary of the array that bears id i.
LastRecordOf(array, i) ==
    array[CHOOSE n \in 1..Len(array) :
             /\ LookupKey(array[n], "id", 1, NULL) = Ptr(i)
             /\ \A m \in (n + 1)..Len(array) :
                   LookupKey(array[m], "id", 1, NULL) # Ptr(i)]

\* C14: when a pass over an array has returned, every id that occurs in the
\* array is in the registry exactly if the last record bearing it has a
\* ring_time, also when several records bear the id.
C14_LastRecordWins ==
    (pc = "idle" /\ handlers > 0 /\ snapshot # NULL)
       => \A i \in IdsOf(snapshot) :
             (i \in KnownIds)
               = (LookupKey(LastRecordOf(Deref(snapshot), i), "ring_time", 1, NULL) # NULL)

C14_Witness ==
    /\ pc = "idle"
    /\ snapshot = Ptr(<< AlarmRecord(Ptr("a"), Ptr(RingT1)), AlarmRecord(Ptr("a"), NULL) >>)
    /\ "a" \notin KnownIds
    /\ Len(bus) = 2

\* C15: the registry never holds an id twice, whatever arrays are read,
\* arrays that repeat an id included.
C15_NoDuplicates ==
    \A m, n \in 1..Len(alarms) : m # n => alarms[m] # alarms[n]

C15_Witness ==
    /\ pc = "idle"
    /\ snapshot = Ptr(<< AlarmRecord(Ptr("a"), Ptr(RingT1)), AlarmRecord(Ptr("a"), Ptr(RingT2)) >>)
    /\ alarms = <<"b", "a">>
    /\ bus = << <<"add_alarm", "a", 1893492000>> >>

\* C16 as stated: every turn of the loop handles the next dictionary of the
\* array and goes on to the one after it, or returns after the last; the
\* array is not changed; and a call made for a dictionary is for its id and
\* is put on the bus, after the calls of the dictionaries before it, within
\* that turn.
C16_AsStated ==
    [][pc = "loop"
          => (/\ LoopAdvances
              /\ snapshot' = snapshot
              /\ \/ bus' = bus
                 \/ /\ CurId # NULL
                    /\ Len(bus') = Len(bus) + 1
                    /\ SubSeq(bus', 1, Len(bus)) = bus
                    /\ bus'[Len(bus')][2] = Deref(CurId))]_vars

\* C17: an object constructed with simulate = FALSE has exactly one handler
\* connected to "alarms-changed" and has entered on_alarms_changed once more
\* than signals were delivered to it: once within its construction, before
\* any signal, and once for every signal.
C17_OnePassPerSignalPlusOne ==
    (default_clocks # NULL /\ ~simulate) => (handlers = 1 /\ lead = 1)

C17_Witness ==
    /\ default_clocks # NULL
    /\ ~simulate
    /\ pc = "idle"
    /\ rerun
    /\ handlers = 1
    /\ lead = 1
    /\ alarms = <<"a">>

\* C18: an object constructed with simulate = TRUE never connects a handler,
\* never reads an array, and after its two synthetic calls nothing changes
\* its registry or reaches the bus; an object constructed with simulate =
\* FALSE never makes a call for APP_ID; and once the default object exists,
\* no call of clocks_get_default, whatever its flag, changes the mode, the
\* handlers or the synthetic calls.
C18_ModesExclusive ==
    [][/\ simulate' => (handlers' = 0 /\ snapshot' = NULL /\ pc' = "idle"
                        /\ alarms' = <<>> /\ Len(bus') = 2)
       /\ (default_clocks' # NULL /\ ~simulate') => last_call'[APP_ID] = NULL
       /\ default_clocks # NULL
            => (/\ default_clocks' = default_clocks
                /\ simulate' = simulate
                /\ handlers' = handlers
                /\ last_call'[APP_ID] = last_call[APP_ID]
                /\ simulate => (bus' = bus /\ alarms' = alarms /\ last_call' = last_call))]_vars

C18_Witness ==
    /\ default_clocks # NULL
    /\ simulate
    /\ handlers = 0
    /\ call_failed
    /\ Len(bus) = 2

\* C19 as stated: a record with an id puts exactly one call on the bus.
C19_AsStated ==
    [][(pc = "loop" /\ CurId # NULL) => Len(NewCalls) = 1]_vars

\* C19: a record with an id makes zero or one change of the registry and
\* puts at most one call on the bus: one call, for that id, when the
\* registry changes by that one id, and none when it does not.
C19_AtMostOneCall ==
    [][(pc = "loop" /\ CurId # NULL)
          => \/ alarms' = alarms /\ NewCalls = <<>>
             \/ /\ alarms' = Append(alarms, Deref(CurId))
                /\ Len(NewCalls) = 1
                /\ NewCalls[1][1] = "add_alarm" /\ NewCalls[1][2] = Deref(CurId)
             \/ /\ alarms' = SelectSeq(alarms, LAMBDA x : x # Deref(CurId))
                /\ Len(alarms') = Len(alarms) - 1
                /\ NewCalls = << <<"remove_alarm", Deref(CurId)>> >>]_vars

C19_Witness ==
    /\ pc = "idle"
    /\ snapshot = Ptr(<< AlarmRecord(Ptr("b"), NULL) >>)
    /\ iter = 2
    /\ alarms = <<"a">>
    /\ bus = <<>>

====
